---- MODULE Spec2Model ----
(***************************************************************************)
(* Grokipedia proxy API, modelled from main.py, models.py and manage_keys.py *)
(* in five specifications over the same variables:                          *)
(*   Spec          the request pipeline (key authentication, rate limiting, *)
(*                 cached upstream fetch, response mapping) and the keys    *)
(*   RaceSpec      fetches of the same URL that are in flight together      *)
(*   AssemblySpec  get_article statement by statement on parsed documents   *)
(*   AdminSpec     the admin routes and the key management CLI              *)
(*   UsageSpec     database sessions of last-used updates and revokes that  *)
(*                 are open together                                        *)
(***************************************************************************)
EXTENDS Integers, Sequences, FiniteSets, TLC

\* ------------------------------------------------------------------ bounds
\* Number of key records that can ever be created.
MaxKeys == 1
\* Number of top-level blocks of a document handed to the Article assembly.
MaxBlocks == 3

\* ------------------------------------------------------- program constants
\* Every Python str is a sequence of tokens (a token is a character or a literal
\* chunk of characters); "" is <<>>. None is a value no str equals.
None == <<"<None>">>
BASE_URL == "https://grokipedia.com"
CACHE_TTL == 3600

Slugs == {<<"Joe", "_", "Biden">>, <<"DoesNotExist123">>}

\* Markup bodies the upstream can answer with; <<>> is a 200 with an empty body.
PageA == <<"<h1>Joe</h1>", "<h2>Life</h2>", "<p>x</p>">>
HomePage == <<"<p>Articles Available", "42", "</p>">>
Markups == {<<>>, PageA, HomePage}

\* Section titles asked for on /article/{slug}/section/{section_title}.
SectionTitles == {<<"l", "i", "f", "e">>, <<"z">>}

\* Upstream statuses that make raise_for_status() raise.
ErrorStatuses == {404, 503}

Routes == {"health", "info", "search", "article", "summary", "section", "stats", "random"}

\* Routes declared with api_key = Depends(verify_api_key).
HasAuthDependency(route) == route \in {"health", "info", "search", "article", "summary", "section"}

\* Routes decorated with @limiter.limit(...).
HasLimiter(route) == route \in {"health", "info", "search", "article", "summary", "section"}

\* Routes whose handler calls fetch_html.
Fetches(route) == route \in {"article", "summary", "section", "stats", "random"}

\* Routes with a {slug} path parameter.
HasSlug(route) == route \in {"article", "summary", "section"}

\* The key secret of the i-th created record (f"grok_{secrets.token_urlsafe(32)}").
KeyOf(i) == <<"grok_", ToString(i)>>

\* Values of the X-API-Key header: absent, empty, unknown, or a generated secret.
PresentedKeys == {None, <<>>, <<"invalid_key_12345">>} \cup {KeyOf(i) : i \in 1..MaxKeys}

\* The X-API-Key values drawn for a request: the header is read only by
\* verify_api_key and only when authentication is enabled.
HeaderValues(route, enabled) ==
    IF HasAuthDependency(route) /\ enabled THEN PresentedKeys ELSE {None}

\* Python truthiness of an Optional[str].
Truthy(s) == s # None /\ s # <<>>

VARIABLES
    API_KEY_AUTH_ENABLED,   \* main.py:43
    RATE_LIMIT_ENABLED,     \* main.py:34
    redis_client,           \* main.py:95, set by startup()
    registry,               \* table api_keys: id -> record
    nextId,                 \* next fresh id / secret
    cache,                  \* Redis: cache key -> [value, ttl]
    tasks,                  \* pending async_update_key_usage tasks (their key argument)
    req,                    \* requests in flight, by slot
    ADMIN_KEY,              \* main.py:44
    adm,                    \* the last admin route call and its response
    input,                  \* what one Article assembly is run on: slug, document, section title
    dom,                    \* the parsed tree (soup) of the assembly in progress
    fields,                 \* the locals get_article has computed so far
    step,                   \* where the assembly in progress stands
    runs,                   \* the Articles of the finished assemblies, oldest first
    sessions,               \* the database sessions of models.py that are open (SessionLocal())
    now,                    \* the clock datetime.utcnow() reads
    commits                 \* the commits the database has taken, oldest first

vars == <<API_KEY_AUTH_ENABLED, RATE_LIMIT_ENABLED, redis_client, registry, nextId,
          cache, tasks, req, ADMIN_KEY, adm, input, dom, fields, step, runs,
          sessions, now, commits>>
config == <<API_KEY_AUTH_ENABLED, RATE_LIMIT_ENABLED, redis_client>>
pipeline == <<config, cache, tasks, req>>
admin == <<ADMIN_KEY, adm>>
assembly == <<input, dom, fields, step, runs>>
usage == <<sessions, now, commits>>

Idle == [pc |-> "idle"]
\* Requests in flight at the same time.
Slots == {1}

\* The smallest element of a non-empty set of positions.
First(S) == CHOOSE i \in S : \A j \in S : i <= j

\* ------------------------------------------------------------------ models.py

\* The arguments of create_api_key the model creates keys with.
TestUser ==
    [user_name |-> <<"Test User 1">>, user_email |-> <<"test1@example.com">>,
     rate_limit |-> 20, notes |-> <<"Test key 1">>]

\* A fresh APIKey row for the arguments p: is_active defaults to True,
\* created_at to the time of the insert, last_used to NULL.
NewRecordFor(key, p) ==
    [key |-> key, user_name |-> p.user_name, user_email |-> p.user_email,
     rate_limit |-> p.rate_limit, is_active |-> TRUE, created_at |-> "utcnow",
     last_used |-> "NULL", notes |-> p.notes]

NewRecord(key) == NewRecordFor(key, TestUser)

Ids == DOMAIN registry

\* Mutant of get_api_key_record: the filter on the key column is missing.
get_api_key_record_AnyKey(reg, key) ==
    LET hit == {i \in DOMAIN reg : reg[i].is_active}
    IN IF hit = {} THEN 0 ELSE CHOOSE i \in hit : TRUE

\* db.query(APIKey).filter(APIKey.key == key, APIKey.is_active == True).first()
get_api_key_record(reg, key) ==
    LET hit == {i \in DOMAIN reg : reg[i].key = key /\ reg[i].is_active}
    IN IF hit = {} THEN 0 ELSE CHOOSE i \in hit : TRUE

\* update_api_key_usage: sets last_used of the record with that key, whatever its
\* active flag; a database error is swallowed (rollback).
update_api_key_usage(reg, key, dbok) ==
    LET hit == {i \in DOMAIN reg : reg[i].key = key}
    IN IF hit = {} \/ ~dbok THEN reg
       ELSE LET i == CHOOSE j \in hit : TRUE
            IN [reg EXCEPT ![i].last_used = "utcnow"]

\* get_all_api_keys: the ids of the rows query.all() returns.
get_all_api_keys(reg, active_only) ==
    {i \in DOMAIN reg : ~active_only \/ reg[i].is_active}

\* Mutant of revoke_api_key: no test for a missing row, so the assignment to the
\* attribute of None raises.
revoke_api_key_NoRowTest(reg, id, dbok) ==
    IF id \notin DOMAIN reg \/ ~dbok THEN [ok |-> "raised", reg |-> reg]
    ELSE [ok |-> "true", reg |-> [reg EXCEPT ![id].is_active = FALSE]]

\* Mutant of revoke_api_key: the active flag is inverted instead of cleared.
revoke_api_key_Toggle(reg, id, dbok) ==
    IF id \notin DOMAIN reg THEN [ok |-> "false", reg |-> reg]
    ELSE IF ~dbok THEN [ok |-> "raised", reg |-> reg]
    ELSE [ok |-> "true", reg |-> [reg EXCEPT ![id].is_active = ~@]]

\* Mutant of revoke_api_key: the row is deleted instead of flagged.
revoke_api_key_HardDelete(reg, id, dbok) ==
    IF id \notin DOMAIN reg THEN [ok |-> "false", reg |-> reg]
    ELSE IF ~dbok THEN [ok |-> "raised", reg |-> reg]
    ELSE [ok |-> "true", reg |-> [i \in (DOMAIN reg) \ {id} |-> reg[i]]]

\* revoke_api_key: [ok, reg']; ok is "true", "false" or "raised".
revoke_api_key(reg, id, dbok) ==
    IF id \notin DOMAIN reg THEN [ok |-> "false", reg |-> reg]
    ELSE IF ~dbok THEN [ok |-> "raised", reg |-> reg]
    ELSE [ok |-> "true", reg |-> [reg EXCEPT ![id].is_active = FALSE]]

\* ------------------------------------------------------------------ main.py helpers

UrlOf(route, slug) ==
    IF HasSlug(route) THEN <<BASE_URL, "/page/">> \o slug
    ELSE IF route = "stats" THEN <<BASE_URL>>
    ELSE <<BASE_URL, "/random">>

CacheKey(url) == <<"html:">> \o url

CacheKeys == {CacheKey(UrlOf("article", s)) : s \in Slugs}
             \cup {CacheKey(UrlOf("stats", None)), CacheKey(UrlOf("random", None))}

\* get_from_cache: the Optional[str] it returns, and whether an exception leaves
\* it. raises: redis_client.get raises; the except clause logs and returns None.
get_from_cache(client, store, key, raises) ==
    IF client = None THEN [value |-> None, raised |-> FALSE]
    ELSE IF raises THEN [value |-> None, raised |-> FALSE]
    ELSE IF key \in DOMAIN store /\ Truthy(store[key].value)
        THEN [value |-> store[key].value, raised |-> FALSE]
    ELSE [value |-> None, raised |-> FALSE]

\* Mutant of Setex: the value is appended to the entry already stored under the
\* key (APPEND instead of SETEX).
Setex_Append(store, key, ttl, value) ==
    [k \in DOMAIN store \cup {key} |->
        IF k = key
            THEN [value |-> (IF key \in DOMAIN store THEN store[key].value ELSE << >>) \o value,
                  ttl |-> ttl]
        ELSE store[k]]

\* redis_client.setex(key, ttl, value)
Setex(store, key, ttl, value) ==
    [k \in DOMAIN store \cup {key} |->
        IF k = key THEN [value |-> value, ttl |-> ttl] ELSE store[k]]

\* Mutant of set_in_cache: no try/except around setex.
set_in_cache_NoCatch(client, store, key, value, raises) ==
    IF client = None THEN [store |-> store, raised |-> FALSE]
    ELSE IF raises THEN [store |-> store, raised |-> TRUE]
    ELSE [store |-> Setex(store, key, CACHE_TTL, value), raised |-> FALSE]

\* set_in_cache: the store after the call, and whether an exception leaves it.
\* raises: redis_client.setex raises; the except clause logs and returns.
set_in_cache(client, store, key, value, raises) ==
    IF client = None THEN [store |-> store, raised |-> FALSE]
    ELSE IF raises THEN [store |-> store, raised |-> FALSE]
    ELSE [store |-> Setex(store, key, CACHE_TTL, value), raised |-> FALSE]

Transport == [kind |-> "transport", code |-> 0, body |-> None]

\* Mutant of FetchError: the 404 detail does not carry the URL.
FetchError_NoUrl(url, outcome) ==
    IF outcome.kind = "status" /\ outcome.code = 404
        THEN [status |-> 404, detail |-> <<"Article not found">>]
    ELSE IF outcome.kind = "status"
        THEN [status |-> outcome.code, detail |-> <<"Error fetching page: ", "HTTPStatusError">>]
    ELSE IF outcome.kind = "timeout"
        THEN [status |-> 504, detail |-> <<"Request timeout - Grokipedia took too long to respond">>]
    ELSE [status |-> 500, detail |-> <<"Error fetching page: ", "transport">>]

\* Mutant of FetchError: no except clause for httpx.TimeoutException, so a
\* timeout falls to the last clause.
FetchError_TimeoutAs500(url, outcome) ==
    IF outcome.kind = "status" /\ outcome.code = 404
        THEN [status |-> 404, detail |-> <<"Article not found: ">> \o url]
    ELSE IF outcome.kind = "status"
        THEN [status |-> outcome.code, detail |-> <<"Error fetching page: ", "HTTPStatusError">>]
    ELSE [status |-> 500, detail |-> <<"Error fetching page: ", "transport">>]

\* Mutant of FetchError: every upstream status other than 404 is answered 500.
FetchError_StatusAs500(url, outcome) ==
    IF outcome.kind = "status" /\ outcome.code = 404
        THEN [status |-> 404, detail |-> <<"Article not found: ">> \o url]
    ELSE IF outcome.kind = "timeout"
        THEN [status |-> 504, detail |-> <<"Request timeout - Grokipedia took too long to respond">>]
    ELSE [status |-> 500, detail |-> <<"Error fetching page: ", "transport">>]

\* The HTTPException fetch_html raises for a failed upstream call.
FetchError(url, outcome) ==
    IF outcome.kind = "status" /\ outcome.code = 404
        THEN [status |-> 404, detail |-> <<"Article not found: ">> \o url]
    ELSE IF outcome.kind = "status"
        THEN [status |-> outcome.code, detail |-> <<"Error fetching page: ", "HTTPStatusError">>]
    ELSE IF outcome.kind = "timeout"
        THEN [status |-> 504, detail |-> <<"Request timeout - Grokipedia took too long to respond">>]
    ELSE [status |-> 500, detail |-> <<"Error fetching page: ", "transport">>]

\* The bodies the upstream serves under a URL: the landing page for the base
\* URL, an article page for /random, an article page or an empty body for the
\* page of Joe_Biden, and no body at all (only failures) for any other page.
UpstreamBodies(url) ==
    IF url = <<BASE_URL>> THEN {HomePage}
    ELSE IF url = <<BASE_URL, "/random">> THEN {PageA}
    ELSE IF url = <<BASE_URL, "/page/", "Joe", "_", "Biden">> THEN {<<>>, PageA}
    ELSE {}

\* What a network call to url can end in.
Outcomes(url) ==
    {[kind |-> "ok", code |-> 200, body |-> m] : m \in UpstreamBodies(url)}
    \cup {[kind |-> "status", code |-> c, body |-> None] : c \in ErrorStatuses}
    \cup {[kind |-> "timeout", code |-> 0, body |-> None],
          Transport}

AllOutcomes == UNION {Outcomes(SubSeq(k, 2, Len(k))) : k \in CacheKeys}

NoOutcome == [kind |-> "none", code |-> 0, body |-> None]

\* ------------------------------------------------------------------ parsing and extraction

\* A parsed document is the sequence of its tags in document order (pre-order).
\* A tag has its name, the position of its parent tag (0: the document itself),
\* its own text, and the attributes the code reads: href, the key of a meta tag
\* (property="og:description" or name="description"), content, and id. An
\* attribute that is not set is None ("" for key and id).
Elem(name, parent, text) ==
    [name |-> name, parent |-> parent, text |-> text,
     href |-> None, key |-> "", content |-> None, id |-> ""]

\* <a href=...>ref</a>
Anchor(parent, href) == [Elem("a", parent, <<"ref">>) EXCEPT !.href = href]

\* <meta property|name=key content=...>
MetaTag(key, content) == [Elem("meta", 0, << >>) EXCEPT !.key = key, !.content = content]

\* BeautifulSoup(html, 'html.parser') on the markups of the model.
BeautifulSoup(html) ==
    IF html = PageA
        THEN << Elem("h1", 0, <<"J", "o", "e">>),
                Elem("h2", 0, <<"L", "i", "f", "e">>),
                Elem("p", 0, <<"x">>) >>
    ELSE IF html = HomePage
        THEN << Elem("p", 0, <<"Articles Available", "42">>) >>
    ELSE << >>

HeadingNames == {"h1", "h2", "h3", "h4", "h5", "h6"}

\* int(heading.name[1])
LevelOf(name) ==
    CASE name = "h1" -> 1 [] name = "h2" -> 2 [] name = "h3" -> 3
      [] name = "h4" -> 4 [] name = "h5" -> 5 [] name = "h6" -> 6

\* sibling.name.startswith('h'), on the tag names of the model.
StartsWithH(name) == name \in HeadingNames \cup {"hr", "header"}

\* str.lower() on the alphabet of the model.
LowerTok(c) ==
    CASE c = "L" -> "l" [] c = "J" -> "j" [] c = "A" -> "a" [] c = "B" -> "b"
      [] c = "References" -> "references" [] c = "REFERENCE" -> "reference"
      [] OTHER -> c
Lower(text) == [i \in DOMAIN text |-> LowerTok(text[i])]

\* str.replace('_', ' ')
ReplaceUnderscore(text) == [i \in DOMAIN text |-> IF text[i] = "_" THEN " " ELSE text[i]]

\* `needle in hay` on str.
Contains(needle, hay) ==
    \E i \in 0..(Len(hay) - Len(needle)) : SubSeq(hay, i + 1, i + Len(needle)) = needle

\* Whitespace tokens.
IsSpace(c) == c \in {" ", "\n"}

\* str.strip()
RECURSIVE StrStrip(_)
StrStrip(text) ==
    IF text = << >> THEN << >>
    ELSE IF IsSpace(Head(text)) THEN StrStrip(Tail(text))
    ELSE IF IsSpace(text[Len(text)]) THEN StrStrip(SubSeq(text, 1, Len(text) - 1))
    ELSE text

\* "".join(parts)
RECURSIVE Concat(_)
Concat(parts) == IF parts = << >> THEN << >> ELSE Head(parts) \o Concat(Tail(parts))

\* " ".join(parts)
RECURSIVE JoinSpace(_)
JoinSpace(parts) ==
    IF parts = << >> THEN << >>
    ELSE IF Len(parts) = 1 THEN parts[1]
    ELSE parts[1] \o <<" ">> \o JoinSpace(Tail(parts))

\* The positions of a document, in document order.
Positions(soup) == [i \in 1..Len(soup) |-> i]

\* Tag j lies inside tag i.
RECURSIVE IsUnder(_, _, _)
IsUnder(soup, j, i) ==
    LET up == soup[j].parent
    IN up # 0 /\ (up = i \/ IsUnder(soup, up, i))

\* root.find_all(names): the tags below root (0: the document) with one of the
\* names, in document order.
find_all(soup, root, names) ==
    SelectSeq(Positions(soup),
              LAMBDA j : (root = 0 \/ IsUnder(soup, j, root)) /\ soup[j].name \in names)

\* root.find(names): the first of them, 0 for None.
find(soup, root, names) ==
    LET hit == find_all(soup, root, names) IN IF hit = << >> THEN 0 ELSE hit[1]

\* tag.find_next_siblings(): the later tags with the same parent.
find_next_siblings(soup, i) ==
    SelectSeq(Positions(soup), LAMBDA j : j > i /\ soup[j].parent = soup[i].parent)

\* tag.get_text(strip=True): the stripped strings of the tag and of the tags
\* inside it, joined.
get_text(soup, i) ==
    LET inside == SelectSeq(Positions(soup), LAMBDA j : j = i \/ IsUnder(soup, j, i))
    IN Concat([k \in DOMAIN inside |-> StrStrip(soup[inside[k]].text)])

\* The texts of the siblings sibs up to the first one whose name starts with
\* 'h', empty texts left out.
RECURSIVE ContentParts(_, _)
ContentParts(soup, sibs) ==
    IF sibs = << >> \/ StartsWithH(soup[Head(sibs)].name) THEN << >>
    ELSE (IF get_text(soup, Head(sibs)) # << >> THEN <<get_text(soup, Head(sibs))>> ELSE << >>)
         \o ContentParts(soup, Tail(sibs))

\* Mutant of TocHeadings: the title is appended to the TOC before the test
\* for level 1.
TocHeadings_BeforeSkip(soup, headings) == headings

\* The headings of the loop that reach toc.append(title).
TocHeadings(soup, headings) ==
    SelectSeq(headings, LAMBDA h : LevelOf(soup[h].name) # 1)

\* The headings of the loop that reach sections.append(Section(...)).
SectionHeadings(soup, headings) ==
    SelectSeq(headings, LAMBDA h : LevelOf(soup[h].name) # 1)

\* extract_sections: the Sections and the TOC.
extract_sections(soup) ==
    LET headings == find_all(soup, 0, HeadingNames)
        inToc == TocHeadings(soup, headings)
        inSections == SectionHeadings(soup, headings)
    IN [sections |-> [k \in DOMAIN inSections |->
                        [title |-> get_text(soup, inSections[k]),
                         content |-> JoinSpace(ContentParts(soup,
                                        find_next_siblings(soup, inSections[k]))),
                         level |-> LevelOf(soup[inSections[k]].name)]],
        toc |-> [k \in DOMAIN inToc |-> get_text(soup, inToc[k])]]

\* soup.find('h1'): position of the first h1, 0 when there is none.
FindH1(soup) == find(soup, 0, {"h1"})

TitleOf(soup, slug) ==
    IF FindH1(soup) # 0 THEN get_text(soup, FindH1(soup)) ELSE ReplaceUnderscore(slug)

NonContent == {"script", "style", "nav", "header", "footer", "button"}

\* element.decompose() for every non-content element: the element and all that
\* is inside it leave the tree.
Strip(soup) ==
    LET gone(j) == soup[j].name \in NonContent
                   \/ \E i \in DOMAIN soup : soup[i].name \in NonContent /\ IsUnder(soup, j, i)
        kept == SelectSeq(Positions(soup), LAMBDA j : ~gone(j))
        at(j) == CHOOSE k \in DOMAIN kept : kept[k] = j
    IN [k \in DOMAIN kept |->
          [soup[kept[k]] EXCEPT !.parent = IF @ = 0 THEN 0 ELSE at(@)]]

\* ---- extract_references

\* re.compile(r'^References?$', re.IGNORECASE) on a tag's string.
MatchesReferences(text) == Lower(text) \in {<<"references">>, <<"reference">>}

\* soup.find(['h2', 'h3'], string=...) or soup.find(id='references') or
\* soup.find(id='References'): position of the References heading, 0 for None.
\* tag.string is the tag's text when no tag is inside it.
RefSection(soup) ==
    LET byText == SelectSeq(Positions(soup), LAMBDA j :
                      /\ soup[j].name \in {"h2", "h3"}
                      /\ ~\E k \in DOMAIN soup : soup[k].parent = j
                      /\ MatchesReferences(soup[j].text))
        byId(v) == SelectSeq(Positions(soup), LAMBDA j : soup[j].id = v)
    IN IF byText # << >> THEN byText[1]
       ELSE IF byId("references") # << >> THEN byId("references")[1]
       ELSE IF byId("References") # << >> THEN byId("References")[1]
       ELSE 0

\* href.startswith('http')
StartsWithHttp(href) == href # << >> /\ href[1] \in {"http://", "https://"}

\* [link.get('href', '') for link in root.find_all('a', href=True)]
Hrefs(soup, root) ==
    LET links == SelectSeq(find_all(soup, root, {"a"}), LAMBDA j : soup[j].href # None)
    IN [k \in DOMAIN links |-> soup[links[k]].href]

\* The while loop over the siblings after the References heading: it stops at
\* an h1 or h2 and takes the absolute links of lists, paragraphs and divs.
RECURSIVE SectionLinks(_, _)
SectionLinks(soup, sibs) ==
    IF sibs = << >> \/ soup[Head(sibs)].name \in {"h1", "h2"} THEN << >>
    ELSE (IF soup[Head(sibs)].name \in {"ol", "ul", "p", "div"}
            THEN SelectSeq(Hrefs(soup, Head(sibs)), StartsWithHttp)
            ELSE << >>)
         \o SectionLinks(soup, Tail(sibs))

\* The fallback: every absolute link of the document that does not contain
\* 'grokipedia.com'.
FallbackLinks(soup) ==
    SelectSeq(Hrefs(soup, 0),
              LAMBDA href : StartsWithHttp(href) /\ ~Contains(<<"grokipedia.com">>, href))

\* The list `references` before duplicates are removed.
CollectedLinks(soup) ==
    LET inSection == IF RefSection(soup) # 0
                       THEN SectionLinks(soup, find_next_siblings(soup, RefSection(soup)))
                       ELSE << >>
    IN IF inSection # << >> THEN inSection ELSE FallbackLinks(soup)

\* Mutant of Unique: the last occurrence of a link is the one that is kept.
RECURSIVE Unique_KeepLast(_)
Unique_KeepLast(refs) ==
    IF refs = << >> THEN << >>
    ELSE IF \E i \in 2..Len(refs) : refs[i] = Head(refs) THEN Unique_KeepLast(Tail(refs))
    ELSE <<Head(refs)>> \o Unique_KeepLast(Tail(refs))

\* The loop over `references` with the set `seen`: unique_refs.
RECURSIVE Unique(_)
Unique(refs) ==
    IF refs = << >> THEN << >>
    ELSE LET front == Unique(SubSeq(refs, 1, Len(refs) - 1))
             last == refs[Len(refs)]
         IN IF \E i \in DOMAIN front : front[i] = last THEN front ELSE Append(front, last)

extract_references(soup) == Unique(CollectedLinks(soup))

\* ---- extract_fact_check_info

\* re.search(r'Fact-checked by (.+?)(?:\.|$)', content).group(1).strip(), None
\* without a match; on the alphabet of the model the phrase is one token.
FactCheckInMeta(content) ==
    LET at == {i \in 1..(Len(content) - 2) :
                 content[i] = "Fact-checked by" /\ content[i + 1] = " "}
    IN IF at = {} THEN None
       ELSE LET i == CHOOSE j \in at : \A k \in at : j <= k
                dots == {k \in (i + 3)..Len(content) : content[k] = "."}
                end == IF dots = {} THEN Len(content)
                       ELSE (CHOOSE k \in dots : \A m \in dots : k <= m) - 1
            IN StrStrip(SubSeq(content, i + 2, end))

\* re.search(r'Fact-checked by\s+(.+?)(?:\s*[A-Z]|$)', text) and the split at a
\* newline, on the alphabet of the model (no capital letter follows the phrase).
FactCheckInText(text) ==
    LET t == StrStrip(text)
        at == {i \in 1..(Len(t) - 2) : t[i] = "Fact-checked by" /\ IsSpace(t[i + 1])}
    IN IF at = {} THEN None
       ELSE LET i == CHOOSE j \in at : \A k \in at : j <= k
                breaks == {k \in (i + 3)..Len(t) : t[k] = "\n"}
                end == IF breaks = {} THEN Len(t)
                       ELSE (CHOOSE k \in breaks : \A m \in breaks : k <= m) - 1
            IN SubSeq(t, i + 2, end)

\* extract_fact_check_info: the og:description tag first, then the first string
\* of the page that carries the phrase.
extract_fact_check_info(soup) ==
    LET og == SelectSeq(find_all(soup, 0, {"meta"}), LAMBDA j : soup[j].key = "og:description")
        content == IF og = << >> \/ soup[og[1]].content = None THEN << >> ELSE soup[og[1]].content
        inText == SelectSeq(Positions(soup), LAMBDA j : FactCheckInText(soup[j].text) # None)
    IN IF FactCheckInMeta(content) # None THEN FactCheckInMeta(content)
       ELSE IF inText # << >> THEN FactCheckInText(soup[inText[1]].text)
       ELSE None

\* ---- summary

\* Chunks of text of a given length.
Lorem == "<201 characters>"
Ipsum == "<200 characters>"

\* len(text)
RECURSIVE CharLen(_)
CharLen(text) ==
    IF text = << >> THEN 0
    ELSE (CASE Head(text) = Lorem -> 201 [] Head(text) = Ipsum -> 200
            [] Head(text) = "Jump to" -> 7 [] Head(text) = "From " -> 5
            [] OTHER -> 1)
         + CharLen(Tail(text))

\* text.startswith(prefix), the prefix being one token of the model.
StartsWith(text, prefix) == text # << >> /\ text[1] = prefix

\* soup.find('meta', {'property': 'og:description'}) or
\* soup.find('meta', {'name': 'description'}): a Tag is truthy whatever it holds.
MetaDesc(soup) ==
    LET og == SelectSeq(find_all(soup, 0, {"meta"}), LAMBDA j : soup[j].key = "og:description")
        nm == SelectSeq(find_all(soup, 0, {"meta"}), LAMBDA j : soup[j].key = "description")
    IN IF og # << >> THEN og[1] ELSE IF nm # << >> THEN nm[1] ELSE 0

\* meta_desc.get('content', '').strip(), "" without a tag.
MetaSummary(soup) ==
    IF MetaDesc(soup) = 0 \/ soup[MetaDesc(soup)].content = None THEN << >>
    ELSE StrStrip(soup[MetaDesc(soup)].content)

\* The loop over title_tag.find_next_siblings(['p', 'div']): the first text
\* longer than 200 characters that starts with none of the boilerplate
\* prefixes, "" when there is none or no title tag.
SiblingScan(soup, boilerplate) ==
    LET sibs == IF FindH1(soup) = 0 THEN << >>
                ELSE SelectSeq(find_next_siblings(soup, FindH1(soup)),
                               LAMBDA j : soup[j].name \in {"p", "div"})
        good == SelectSeq(sibs, LAMBDA j :
                    /\ CharLen(get_text(soup, j)) > 200
                    /\ \A b \in boilerplate : ~StartsWith(get_text(soup, j), b))
    IN IF good = << >> THEN << >> ELSE get_text(soup, good[1])

\* The loop over main_content.find_all('p'), main_content being
\* soup.find('article') or soup.find('main') or soup.
GlobalScan(soup) ==
    LET main_content == IF find(soup, 0, {"article"}) # 0 THEN find(soup, 0, {"article"})
                        ELSE find(soup, 0, {"main"})
        good == SelectSeq(find_all(soup, main_content, {"p"}),
                          LAMBDA j : CharLen(get_text(soup, j)) > 200)
    IN IF good = << >> THEN << >> ELSE get_text(soup, good[1])

\* The summary chain of a handler whose sibling scan skips the given prefixes.
SummaryOf(soup, boilerplate) ==
    IF MetaSummary(soup) # << >> THEN MetaSummary(soup)
    ELSE IF SiblingScan(soup, boilerplate) # << >> THEN SiblingScan(soup, boilerplate)
    ELSE GlobalScan(soup)

\* ---- full text

\* soup.get_text(separator='\n', strip=True)
RECURSIVE JoinLines(_)
JoinLines(parts) ==
    IF parts = << >> THEN << >>
    ELSE IF Len(parts) = 1 THEN parts[1]
    ELSE parts[1] \o <<"\n">> \o JoinLines(Tail(parts))

FullContent(soup) ==
    LET strings == SelectSeq([j \in DOMAIN soup |-> StrStrip(soup[j].text)],
                             LAMBDA t : t # << >>)
    IN JoinLines(strings)

\* len(full_content.split()): the runs of tokens that are not whitespace.
WordCount(text) ==
    Cardinality({i \in DOMAIN text :
                   ~IsSpace(text[i]) /\ (i = 1 \/ IsSpace(text[i - 1]))})

\* get_article, from the markup on: the Article.
get_article(slug, html) ==
    LET soup == BeautifulSoup(html)
        ex == extract_sections(Strip(soup))
    IN [kind |-> "article",
        title |-> TitleOf(soup, slug),
        slug |-> slug,
        url |-> UrlOf("article", slug),
        summary |-> SummaryOf(soup, {"Jump to", "From "}),
        sections |-> ex.sections,
        table_of_contents |-> ex.toc]

\* get_article_summary, from the parsed tree on: the dict it returns.
SummaryResponse(soup, slug) ==
    LET hs == find_all(soup, 0, {"h2", "h3"})
    IN [kind |-> "summary",
        title |-> TitleOf(soup, slug),
        slug |-> slug,
        url |-> UrlOf("summary", slug),
        summary |-> SummaryOf(soup, {"Jump to"}),
        table_of_contents |-> [i \in 1..(IF Len(hs) < 10 THEN Len(hs) ELSE 10) |->
                                  get_text(soup, hs[i])]]

\* get_article_summary, from the markup on.
get_article_summary(slug, html) == SummaryResponse(BeautifulSoup(html), slug)

\* Mutant of FindSection: the loop does not stop at the first match, so the last
\* matching section is the one returned.
FindSection_LastMatch(sections, section_title) ==
    LET want == ReplaceUnderscore(Lower(section_title))
        hit == {i \in DOMAIN sections : Contains(want, Lower(sections[i].title))}
    IN IF hit = {} THEN 0 ELSE CHOOSE i \in hit : \A j \in hit : i >= j

\* Index of the first section whose lowered title contains the lowered,
\* underscore-replaced section_title; 0 when there is none.
FindSection(sections, section_title) ==
    LET want == ReplaceUnderscore(Lower(section_title))
        hit == {i \in DOMAIN sections : Contains(want, Lower(sections[i].title))}
    IN IF hit = {} THEN 0 ELSE CHOOSE i \in hit : \A j \in hit : i <= j

\* get_stats: int(match.group(1)) of re.search(r'Articles Available(\d+)', text),
\* 0 without a match; the digit runs of the model are the token "42".
ArticlesAvailable(soup) ==
    IF \E i \in DOMAIN soup : \E j \in 1..(Len(soup[i].text) - 1) :
           soup[i].text[j] = "Articles Available" /\ soup[i].text[j + 1] = "42"
        THEN 42 ELSE 0

NoBody == [kind |-> "none"]

\* An exception that is no HTTPException leaves the handler: the server answers 500.
ServerError == [status |-> 500, detail |-> <<"Internal Server Error">>]

Reply(status, detail, body) == [status |-> status, detail |-> detail, body |-> body]

\* get_article_section once get_article has returned the article.
SectionReply(article, slug, section_title) ==
    LET i == FindSection(article.sections, section_title)
    IN IF i # 0
         THEN Reply(200, << >>, [kind |-> "section", article_title |-> article.title,
                                 section |-> article.sections[i], url |-> article.url])
         ELSE Reply(404, <<"Section '">> \o section_title \o <<"' not found in article '">>
                         \o slug \o <<"'">>, NoBody)

\* The rest of a handler once fetch_html has returned html.
HandlerAfterFetch(route, slug, section_title, html) ==
    CASE route = "article" -> Reply(200, << >>, get_article(slug, html))
      [] route = "summary" -> Reply(200, << >>, get_article_summary(slug, html))
      [] route = "section" -> SectionReply(get_article(slug, html), slug, section_title)
      [] route = "stats" -> Reply(200, << >>, [kind |-> "stats",
                                                 articles_available |-> ArticlesAvailable(BeautifulSoup(html))])
      [] route = "random" ->
            Reply(200, << >>, [kind |-> "message",
                  message |-> "Random article feature - implementation depends on site support"])

\* The response when fetch_html raises: /random catches everything and answers
\* 501, every other handler lets the HTTPException through.
HandlerOnFetchError(route, err) ==
    IF route = "random"
        THEN Reply(501, <<"Random article feature not available">>, NoBody)
    ELSE Reply(err.status, err.detail, NoBody)

\* Handlers that never call fetch_html.
HandlerNoFetch(route) ==
    CASE route = "health" -> Reply(200, << >>, [kind |-> "health", status |-> "healthy",
                                                base_url |-> BASE_URL])
      [] route = "info" -> Reply(200, << >>, [kind |-> "info", name |-> "Grokipedia API"])
      [] route = "search" -> Reply(200, << >>, [kind |-> "search", results |-> << >>])

\* ------------------------------------------------------------------ verify_api_key

Client == <<"redis">>

\* asyncio.create_task(async_update_key_usage(api_key)): with a running event loop
\* the task is scheduled; without one create_task raises RuntimeError.
create_task(pending, key, loop) ==
    IF loop THEN [raised |-> FALSE, tasks |-> pending \cup {key}]
    ELSE [raised |-> TRUE, tasks |-> pending]

\* verify_api_key: what the dependency does for a presented key. An exception
\* that is no HTTPException is answered 500 by the server.
verify_api_key(enabled, api_key, reg, pending, loop) ==
    IF ~enabled
        THEN [event |-> "auth_ok", status |-> 0, detail |-> << >>, tasks |-> pending, scheduled |-> FALSE]
    ELSE IF ~Truthy(api_key)
        THEN [event |-> "auth_403", status |-> 403,
              detail |-> <<"API key required. Use header: X-API-Key">>,
              tasks |-> pending, scheduled |-> FALSE]
    ELSE IF get_api_key_record(reg, api_key) = 0
        THEN [event |-> "auth_403", status |-> 403, detail |-> <<"Invalid API key">>,
              tasks |-> pending, scheduled |-> FALSE]
    ELSE LET t == create_task(pending, api_key, loop)
         IN IF t.raised
              THEN [event |-> "auth_500", status |-> 500, detail |-> <<"Internal Server Error">>,
                    tasks |-> t.tasks, scheduled |-> FALSE]
              ELSE [event |-> "auth_ok", status |-> 0, detail |-> << >>,
                    tasks |-> t.tasks, scheduled |-> TRUE]

\* What the registry holds for a presented key when the dependency runs.
RegistryStatus(reg, key) ==
    IF \E i \in DOMAIN reg : reg[i].key = key /\ reg[i].is_active THEN "active"
    ELSE IF \E i \in DOMAIN reg : reg[i].key = key THEN "inactive"
    ELSE "none"

\* Where a request goes once its dependencies are solved: the limiter wrapper
\* when the route is decorated and rate limiting is on, else the handler.
AfterDependencies(route, limit_enabled) ==
    IF limit_enabled /\ HasLimiter(route) THEN "limit" ELSE "handler"

\* ------------------------------------------------------------------ state machine

NoSeen == [st |-> "noget", value |-> None]

\* The event e is on the trail of a request.
Has(trail, e) == \E i \in DOMAIN trail : trail[i] = e

NewRequest(route, key, slug, title) ==
    [pc |-> IF HasAuthDependency(route) THEN "auth"
            ELSE AfterDependencies(route, RATE_LIMIT_ENABLED),
     route |-> route, key |-> key, slug |-> slug, title |-> title,
     trail |-> << >>, status |-> 0, detail |-> << >>, body |-> NoBody,
     lookup |-> "nolookup", scheduled |-> FALSE,
     seen |-> NoSeen, upstream |-> NoOutcome, html |-> None]

\* No admin route has been called; ADMIN_KEY has its default, "".
NoCall == [route |-> "none"]
AdminIdle == ADMIN_KEY = << >> /\ adm = NoCall

\* No Article assembly is in progress or finished.
NoInput == [slug |-> None, tree |-> << >>]
NoFields ==
    [title |-> << >>, summary |-> << >>, references |-> << >>, fact_checked |-> None,
     full_content |-> << >>, sections |-> << >>, table_of_contents |-> << >>,
     word_count |-> 0, log |-> << >>, asked |-> None, reply |-> Reply(0, << >>, NoBody)]
AssemblyIdle ==
    input = NoInput /\ dom = << >> /\ fields = NoFields /\ step = "idle" /\ runs = << >>

\* No database session of models.py is open and nothing has been committed.
NoSession == [pc |-> "none"]
UsageIdle == sessions = << >> /\ now = 1 /\ commits = << >>

\* No request is in flight, the cache is empty and no task is pending.
PipelineIdle == cache = << >> /\ tasks = {} /\ req = [s \in Slots |-> Idle]

Init ==
    /\ API_KEY_AUTH_ENABLED \in BOOLEAN
    /\ RATE_LIMIT_ENABLED \in BOOLEAN
    /\ redis_client \in {None, Client}
    /\ registry = << >>
    /\ nextId = 1
    /\ cache = << >>
    /\ tasks = {}
    /\ req = [s \in Slots |-> Idle]
    /\ AdminIdle
    /\ AssemblyIdle
    /\ UsageIdle

Done(r, reply) ==
    [r EXCEPT !.pc = "done", !.status = reply.status, !.detail = reply.detail,
              !.body = reply.body]

\* A request comes in and is routed.
Arrive(s, route, key, slug, title) ==
    /\ req[s] = Idle
    /\ req' = [req EXCEPT ![s] = NewRequest(route, key, slug, title)]
    /\ UNCHANGED <<admin, assembly, usage, config, registry, nextId, cache, tasks>>

\* The verify_api_key dependency runs. No handler reads its api_key argument, so
\* the header value is dropped from the request once the dependency has passed.
VerifyApiKey(s, loop) ==
    /\ req[s].pc = "auth"
    /\ LET r == req[s]
           v == verify_api_key(API_KEY_AUTH_ENABLED, r.key, registry, tasks, loop)
           seenReg == IF API_KEY_AUTH_ENABLED /\ Truthy(r.key)
                        THEN RegistryStatus(registry, r.key) ELSE "nolookup"
           r1 == [r EXCEPT !.trail = Append(@, v.event), !.lookup = seenReg,
                           !.scheduled = v.scheduled]
       IN /\ tasks' = v.tasks
          /\ req' = [req EXCEPT ![s] =
                IF v.event = "auth_ok"
                    THEN [r1 EXCEPT !.pc = AfterDependencies(r.route, RATE_LIMIT_ENABLED),
                                    !.key = None]
                ELSE Done(r1, Reply(v.status, v.detail, NoBody))]
    /\ UNCHANGED <<admin, assembly, usage, config, registry, nextId, cache>>

\* Mutant of LimiterCheck: the exceeded quota is noted but RateLimitExceeded is
\* not raised, and the handler runs.
LimiterCheck_NoRaise(s, allowed) ==
    /\ req[s].pc = "limit"
    /\ req' = [req EXCEPT ![s] =
            [req[s] EXCEPT !.pc = "handler",
                           !.trail = Append(@, IF allowed THEN "limit_ok" ELSE "limit_429")]]
    /\ UNCHANGED <<admin, assembly, usage, config, registry, nextId, cache, tasks>>

\* The limiter wrapper checks the quota of the caller for the route.
LimiterCheck(s, allowed) ==
    /\ req[s].pc = "limit"
    /\ LET r == req[s]
       IN req' = [req EXCEPT ![s] =
            IF allowed
                THEN [r EXCEPT !.pc = "handler", !.trail = Append(@, "limit_ok")]
            ELSE Done([r EXCEPT !.trail = Append(@, "limit_429")],
                      Reply(429, <<"Rate limit exceeded">>, NoBody))]
    /\ UNCHANGED <<admin, assembly, usage, config, registry, nextId, cache, tasks>>

\* A handler that does not fetch answers.
Handle(s) ==
    /\ req[s].pc = "handler"
    /\ ~Fetches(req[s].route)
    /\ req' = [req EXCEPT ![s] = Done(req[s], HandlerNoFetch(req[s].route))]
    /\ UNCHANGED <<admin, assembly, usage, config, registry, nextId, cache, tasks>>

\* fetch_html up to the network call: the cache lookup, outside the try block.
FetchCacheRead(s, raises) ==
    /\ req[s].pc = "handler"
    /\ Fetches(req[s].route)
    /\ raises => redis_client # None
    /\ LET r == req[s]
           key == CacheKey(UrlOf(r.route, r.slug))
           got == get_from_cache(redis_client, cache, key, raises)
           cached == got.value
           ev == IF redis_client = None THEN <<"fetch">>
                 ELSE IF raises THEN <<"fetch", "cache_get", "cache_get_raised">>
                 ELSE <<"fetch", "cache_get">>
           sn == IF redis_client = None THEN NoSeen
                 ELSE IF raises THEN [st |-> "raised", value |-> None]
                 ELSE IF key \in DOMAIN cache THEN [st |-> "present", value |-> cache[key].value]
                 ELSE [st |-> "absent", value |-> None]
           r1 == [r EXCEPT !.trail = @ \o ev, !.seen = sn]
       IN req' = [req EXCEPT ![s] =
            IF got.raised
                THEN Done(r1, HandlerOnFetchError(r.route, ServerError))
            ELSE IF Truthy(cached)
                THEN Done([r1 EXCEPT !.trail = @ \o <<"cache_hit">>, !.html = cached],
                          HandlerAfterFetch(r.route, r.slug, r.title, cached))
            ELSE [r1 EXCEPT !.pc = "net"]]
    /\ UNCHANGED <<admin, assembly, usage, config, registry, nextId, cache, tasks>>

\* Mutant of NetCall: the failure response is stored under the URL, so that the
\* next request for it is answered from the cache.
NetCall_CacheFailure(s, outcome) ==
    /\ req[s].pc = "net"
    /\ outcome \in Outcomes(UrlOf(req[s].route, req[s].slug))
    /\ LET r == req[s]
           r1 == [r EXCEPT !.trail = Append(@, "net"), !.upstream = outcome]
           err == FetchError(UrlOf(r.route, r.slug), outcome)
       IN IF outcome.kind = "ok"
            THEN /\ req' = [req EXCEPT ![s] = [r1 EXCEPT !.pc = "store", !.html = outcome.body]]
                 /\ UNCHANGED cache
            ELSE /\ req' = [req EXCEPT ![s] = Done(r1, HandlerOnFetchError(r.route, err))]
                 /\ cache' = IF redis_client = None THEN cache
                              ELSE Setex(cache, CacheKey(UrlOf(r.route, r.slug)), CACHE_TTL,
                                         err.detail)
    /\ UNCHANGED <<admin, assembly, usage, config, registry, nextId, tasks>>

\* Mutant of NetCall: a failed call is tried once more before the failure is
\* mapped to a response.
NetCall_Retry(s, outcome) ==
    /\ req[s].pc = "net"
    /\ outcome \in Outcomes(UrlOf(req[s].route, req[s].slug))
    /\ LET r == req[s]
           r1 == [r EXCEPT !.trail = Append(@, "net"), !.upstream = outcome]
       IN req' = [req EXCEPT ![s] =
            IF outcome.kind = "ok"
                THEN [r1 EXCEPT !.pc = "store", !.html = outcome.body]
            ELSE IF ~Has(r.trail, "net") THEN r1
            ELSE Done(r1, HandlerOnFetchError(r.route,
                              FetchError(UrlOf(r.route, r.slug), outcome)))]
    /\ UNCHANGED <<admin, assembly, usage, config, registry, nextId, cache, tasks>>

\* fetch_html: client.get and raise_for_status.
NetCall(s, outcome) ==
    /\ req[s].pc = "net"
    /\ outcome \in Outcomes(UrlOf(req[s].route, req[s].slug))
    /\ LET r == req[s]
           r1 == [r EXCEPT !.trail = Append(@, "net"), !.upstream = outcome]
       IN req' = [req EXCEPT ![s] =
            IF outcome.kind = "ok"
                THEN [r1 EXCEPT !.pc = "store", !.html = outcome.body]
            ELSE Done(r1, HandlerOnFetchError(r.route,
                              FetchError(UrlOf(r.route, r.slug), outcome)))]
    /\ UNCHANGED <<admin, assembly, usage, config, registry, nextId, cache, tasks>>

\* fetch_html: set_in_cache, return html; the handler goes on to its response.
\* set_in_cache is called inside the try block, so an exception leaving it would
\* be mapped by the last except clause.
CacheStore(s, raises) ==
    /\ req[s].pc = "store"
    /\ raises => redis_client # None
    /\ LET r == req[s]
           key == CacheKey(UrlOf(r.route, r.slug))
           ev == IF redis_client = None THEN << >>
                 ELSE IF raises THEN <<"cache_set", "cache_set_raised">>
                 ELSE <<"cache_set">>
           put == set_in_cache(redis_client, cache, key, r.html, raises)
           r1 == [r EXCEPT !.trail = @ \o ev]
       IN /\ cache' = put.store
          /\ req' = [req EXCEPT ![s] =
                IF put.raised
                    THEN Done(r1, HandlerOnFetchError(r.route,
                                      FetchError(UrlOf(r.route, r.slug), Transport)))
                ELSE Done(r1, HandlerAfterFetch(r.route, r.slug, r.title, r.html))]
    /\ UNCHANGED <<admin, assembly, usage, config, registry, nextId, tasks>>

\* The response has been sent; the slot is free again.
Retire(s) ==
    /\ req[s].pc = "done"
    /\ req' = [req EXCEPT ![s] = Idle]
    /\ UNCHANGED <<admin, assembly, usage, config, registry, nextId, cache, tasks>>

\* A scheduled async_update_key_usage task runs.
RunTouch(key, dbok) ==
    /\ key \in tasks
    /\ tasks' = tasks \ {key}
    /\ registry' = update_api_key_usage(registry, key, dbok)
    /\ UNCHANGED <<admin, assembly, usage, config, nextId, cache, req>>

\* Redis drops an entry whose time-to-live has run out.
Expire(k) ==
    /\ k \in DOMAIN cache
    /\ cache' = [j \in (DOMAIN cache) \ {k} |-> cache[j]]
    /\ UNCHANGED <<admin, assembly, usage, config, registry, nextId, tasks, req>>

\* create_api_key: a database error rolls the insert back.
CreateKey(dbok) ==
    /\ nextId <= MaxKeys
    /\ IF dbok
         THEN /\ registry' = [i \in (DOMAIN registry) \cup {nextId} |->
                                IF i = nextId THEN NewRecord(KeyOf(nextId)) ELSE registry[i]]
              /\ nextId' = nextId + 1
         ELSE UNCHANGED <<registry, nextId>>
    /\ UNCHANGED <<admin, assembly, usage, config, cache, tasks, req>>

\* revoke_api_key (admin route and CLI).
RevokeKey(id, dbok) ==
    /\ registry' = revoke_api_key(registry, id, dbok).reg
    /\ UNCHANGED <<admin, assembly, usage, config, nextId, cache, tasks, req>>

\* manage_keys.py delete_key.
DeleteKey(id) ==
    /\ id \in DOMAIN registry
    /\ registry' = [i \in (DOMAIN registry) \ {id} |-> registry[i]]
    /\ UNCHANGED <<admin, assembly, usage, config, nextId, cache, tasks, req>>

Next ==
    \/ \E s \in Slots, route \in Routes :
         \E key \in HeaderValues(route, API_KEY_AUTH_ENABLED),
            slug \in (IF HasSlug(route) THEN Slugs ELSE {None}),
            title \in (IF route = "section" THEN SectionTitles ELSE {None}) :
              Arrive(s, route, key, slug, title)
    \/ \E s \in Slots, loop \in BOOLEAN : VerifyApiKey(s, loop)
    \/ \E s \in Slots, allowed \in BOOLEAN : LimiterCheck(s, allowed)
    \/ \E s \in Slots : Handle(s)
    \/ \E s \in Slots, raises \in BOOLEAN : FetchCacheRead(s, raises)
    \/ \E s \in Slots, outcome \in AllOutcomes : NetCall(s, outcome)
    \/ \E s \in Slots, raises \in BOOLEAN : CacheStore(s, raises)
    \/ \E s \in Slots : Retire(s)
    \/ \E key \in PresentedKeys, dbok \in BOOLEAN : RunTouch(key, dbok)
    \/ \E k \in CacheKeys : Expire(k)
    \/ \E dbok \in BOOLEAN : CreateKey(dbok)
    \/ \E id \in 1..MaxKeys, dbok \in BOOLEAN : RevokeKey(id, dbok)
    \/ \E id \in 1..MaxKeys : DeleteKey(id)

Spec == Init /\ [][Next]_vars

\* ------------------------------------------------------------------ concurrent fetches

\* Number of requests that are in flight together.
MaxRequests == 2
Concurrent == 1..MaxRequests

\* The requests that race: for the page of one slug, and for another URL.
RaceRoutes == {"article", "stats"}

\* The server runs with Redis connected and with key authentication and rate
\* limiting switched off; MaxRequests requests are served, each in its own slot.
RaceInit ==
    /\ API_KEY_AUTH_ENABLED = FALSE
    /\ RATE_LIMIT_ENABLED = FALSE
    /\ redis_client = Client
    /\ registry = << >>
    /\ nextId = 1
    /\ cache = << >>
    /\ tasks = {}
    /\ req = [s \in Concurrent |-> Idle]
    /\ AdminIdle
    /\ AssemblyIdle
    /\ UsageIdle

RaceNext ==
    \/ \E s \in Concurrent, route \in RaceRoutes :
         Arrive(s, route, None, IF HasSlug(route) THEN <<"Joe", "_", "Biden">> ELSE None, None)
    \/ \E s \in Concurrent, loop \in BOOLEAN : VerifyApiKey(s, loop)
    \/ \E s \in Concurrent, raises \in BOOLEAN : FetchCacheRead(s, raises)
    \/ \E s \in Concurrent, outcome \in AllOutcomes : NetCall(s, outcome)
    \/ \E s \in Concurrent, raises \in BOOLEAN : CacheStore(s, raises)
    \/ \E k \in CacheKeys : Expire(k)

RaceSpec == RaceInit /\ [][RaceNext]_vars

\* ------------------------------------------------------------------ Article assembly

\* Link targets: three outside sites, a page of the source site written as an
\* absolute URL, and the same page written as a relative URL.
ExtA == <<"https://", "a.example", "/1">>
ExtB == <<"https://", "b.example", "/2">>
ExtC == <<"http://", "c.example", "/3">>
OwnAbsolute == <<"https://", "grokipedia.com", "/page/", "X">>
OwnRelative == <<"/page/", "X">>

\* The top-level blocks documents are laid out from; the parent of a tag inside
\* a block is its position in the block.
Blocks ==
    { << Elem("h1", 0, <<"J", "o", "e">>) >>,
      << Elem("h2", 0, <<"A", " ", "B">>) >>,
      << Elem("h2", 0, <<"References">>) >>,
      << Elem("div", 0, << >>), Elem("h3", 1, <<"A", "_", "B">>), Elem("p", 1, <<"x">>),
         Elem("hr", 1, << >>), Elem("p", 1, <<"y">>) >>,
      << Elem("p", 0, <<Lorem>>) >>,
      << Elem("p", 0, <<"From ", Lorem>>) >>,
      << MetaTag("og:description", << >>) >>,
      << MetaTag("description", <<" ", "d", " ">>) >>,
      << Elem("ul", 0, << >>), Anchor(1, ExtA), Anchor(1, ExtB), Anchor(1, ExtA),
         Anchor(1, ExtC) >>,
      << Elem("ul", 0, << >>), Anchor(1, OwnAbsolute), Anchor(1, OwnRelative) >>,
      << Elem("footer", 0, << >>), Anchor(1, ExtB), Elem("h2", 1, <<"B">>),
         Elem("p", 1, <<"Fact-checked by", " ", "grok">>) >> }

\* The tags of the blocks one after the other, parents renumbered.
RECURSIVE Layout(_)
Layout(blocks) ==
    IF blocks = << >> THEN << >>
    ELSE LET front == Layout(SubSeq(blocks, 1, Len(blocks) - 1))
             last == blocks[Len(blocks)]
         IN front \o [k \in DOMAIN last |->
                        [last[k] EXCEPT !.parent = IF @ = 0 THEN 0 ELSE @ + Len(front)]]

Documents == {Layout(blocks) : blocks \in UNION {[1..n -> Blocks] : n \in 0..MaxBlocks}}

\* Section titles asked for once the Article is assembled.
AskedTitles == {<<"a", "_", "b">>, <<"A", " ", "B">>, <<"b">>, <<"z">>}

\* The statements of get_article after fetch_html, in program order.
Statements ==
    <<"parse", "title", "summary", "references", "fact_checked", "decompose",
      "full_content", "sections", "word_count", "return">>

\* Mutant of After: the non-content tags are removed right after the summary,
\* before the references and the fact-check are extracted.
After_DecomposeFirst(stmt) ==
    LET order == <<"parse", "title", "summary", "decompose", "references", "fact_checked",
                   "full_content", "sections", "word_count", "return">>
        i == CHOOSE k \in DOMAIN order : order[k] = stmt
    IN IF i = Len(order) THEN "returned" ELSE order[i + 1]

\* The statement that follows stmt.
After(stmt) ==
    LET i == CHOOSE k \in DOMAIN Statements : Statements[k] = stmt
    IN IF i = Len(Statements) THEN "returned" ELSE Statements[i + 1]

\* What is noted of a statement when it runs: whether the decompose loop has
\* run before it, whether the tree is still as parsed, and whether a non-content
\* tag is left in the tree.
Note(stmt) ==
    [stmt |-> stmt,
     decomposed |-> \E i \in DOMAIN fields.log : fields.log[i].stmt = "decompose",
     as_parsed |-> dom = input.tree,
     clean |-> \A j \in DOMAIN dom : dom[j].name \notin NonContent]

\* A statement of get_article runs: the locals and the tree after it.
Exec(stmt, locals, tree) ==
    /\ step = stmt
    /\ fields' = [locals EXCEPT !.log = Append(@, Note(stmt))]
    /\ dom' = tree
    /\ step' = After(stmt)
    /\ UNCHANGED <<pipeline, registry, nextId, admin, usage, input, runs>>

\* Mutant of Parse: a tree left by an earlier assembly is used again.
Parse_KeepSoup ==
    Exec("parse", fields, IF runs = << >> THEN input.tree ELSE dom)

\* soup = BeautifulSoup(html, 'html.parser')
Parse == Exec("parse", fields, input.tree)

ExtractTitle ==
    Exec("title", [fields EXCEPT !.title = TitleOf(dom, input.slug)], dom)

ExtractSummary ==
    Exec("summary", [fields EXCEPT !.summary = SummaryOf(dom, {"Jump to", "From "})], dom)

ExtractReferences ==
    Exec("references", [fields EXCEPT !.references = extract_references(dom)], dom)

ExtractFactCheck ==
    Exec("fact_checked", [fields EXCEPT !.fact_checked = extract_fact_check_info(dom)], dom)

Decompose == Exec("decompose", fields, Strip(dom))

GetFullContent ==
    Exec("full_content", [fields EXCEPT !.full_content = FullContent(dom)], dom)

ExtractSections ==
    Exec("sections", [fields EXCEPT !.sections = extract_sections(dom).sections,
                                    !.table_of_contents = extract_sections(dom).toc], dom)

CountWords ==
    Exec("word_count", [fields EXCEPT !.word_count = WordCount(fields.full_content)], dom)

\* return Article(...); scraped_at is the time of the call, here its ordinal.
Article(locals, slug, at) ==
    [title |-> locals.title, slug |-> slug, url |-> UrlOf("article", slug),
     summary |-> locals.summary, full_content |-> locals.full_content,
     sections |-> locals.sections, table_of_contents |-> locals.table_of_contents,
     references |-> locals.references,
     metadata |-> [fact_checked |-> locals.fact_checked, word_count |-> locals.word_count],
     scraped_at |-> at]

\* The handler returns: its locals are gone, the tree object is garbage. The
\* log of the call is kept with the Article.
Return ==
    /\ step = "return"
    /\ runs' = Append(runs, [article |-> Article(fields, input.slug, Len(runs) + 1),
                             log |-> Append(fields.log, Note("return")),
                             tree |-> dom])
    /\ step' = After("return")
    /\ UNCHANGED <<pipeline, registry, nextId, admin, usage, input, dom, fields>>

\* get_article is called again for the same page.
Again ==
    /\ step = "returned"
    /\ Len(runs) = 1
    /\ step' = "parse"
    /\ fields' = NoFields
    /\ UNCHANGED <<pipeline, registry, nextId, admin, usage, input, dom, runs>>

\* get_article_section answers from the article get_article returned to it.
GetSection(section_title) ==
    /\ step = "returned"
    /\ fields.asked = None
    /\ fields' = [fields EXCEPT !.asked = section_title,
                    !.reply = SectionReply(runs[Len(runs)].article, input.slug, section_title)]
    /\ UNCHANGED <<pipeline, registry, nextId, admin, usage, input, dom, step, runs>>

AssemblyInit ==
    /\ API_KEY_AUTH_ENABLED = TRUE
    /\ RATE_LIMIT_ENABLED = TRUE
    /\ redis_client = None
    /\ registry = << >>
    /\ nextId = 1
    /\ PipelineIdle
    /\ AdminIdle
    /\ UsageIdle
    /\ input \in {[slug |-> <<"Joe", "_", "Biden">>, tree |-> d] : d \in Documents}
    /\ dom = << >>
    /\ fields = NoFields
    /\ step = "parse"
    /\ runs = << >>

AssemblyNext ==
    \/ Parse
    \/ ExtractTitle
    \/ ExtractSummary
    \/ ExtractReferences
    \/ ExtractFactCheck
    \/ Decompose
    \/ GetFullContent
    \/ ExtractSections
    \/ CountWords
    \/ Return
    \/ Again
    \/ \E section_title \in AskedTitles : GetSection(section_title)

AssemblySpec == AssemblyInit /\ [][AssemblyNext]_vars

\* ------------------------------------------------------------------ key management

\* The admin_key query parameter: missing, empty, the secret of the model, or
\* another text.
Secret == <<"s3cret">>
AdminKeys == {None, << >>, Secret, <<"wrong">>}

\* Bodies of POST /admin/keys/create: a valid one and one whose user_name is
\* empty.
Payloads == {TestUser, [TestUser EXCEPT !.user_name = << >>]}

\* APIKeyCreateRequest, on the payloads of the model: user_name has
\* min_length 1 and rate_limit lies in 1..100.
ValidPayload(p) == p.user_name # << >> /\ p.rate_limit \in 1..100

\* Mutant of AdminDenied: only the comparison with ADMIN_KEY is made.
AdminDenied_CompareOnly(admin_key, configured) == admin_key # configured

\* not admin_key or admin_key != ADMIN_KEY or not ADMIN_KEY
AdminDenied(admin_key, configured) ==
    admin_key = << >> \/ admin_key # configured \/ configured = << >>

\* APIKeyResponse of the row id.
APIKeyResponse(reg, id) ==
    [id |-> id, key |-> reg[id].key, user_name |-> reg[id].user_name,
     user_email |-> reg[id].user_email, rate_limit |-> reg[id].rate_limit,
     is_active |-> reg[id].is_active, created_at |-> reg[id].created_at,
     last_used |-> reg[id].last_used, notes |-> reg[id].notes]

\* APIKeyListResponse of the row id.
APIKeyListResponse(reg, id) ==
    [id |-> id, user_name |-> reg[id].user_name, user_email |-> reg[id].user_email,
     rate_limit |-> reg[id].rate_limit, is_active |-> reg[id].is_active,
     created_at |-> reg[id].created_at, last_used |-> reg[id].last_used]

\* A call of an admin route or of a CLI command is over: what was asked, the
\* response (the exit status of a CLI command: 0 or 1), whether the request
\* passed the validation of its parameters and body, and the registry before and
\* after it.
Called(route, admin_key, id, active_only, status, body, after) ==
    /\ adm' = [route |-> route, admin_key |-> admin_key, id |-> id,
               active_only |-> active_only, status |-> status, body |-> body,
               valid |-> status # 422,
               before |-> registry, after |-> after]
    /\ registry' = after
    /\ UNCHANGED <<pipeline, assembly, usage, ADMIN_KEY>>

\* A request the framework rejects before the handler runs: a required query
\* parameter is missing or the body does not validate.
Unprocessable(route, admin_key, id, active_only) ==
    /\ Called(route, admin_key, id, active_only, 422, NoBody, registry)
    /\ UNCHANGED nextId

\* The handler raises HTTPException(403, "Invalid admin key").
Forbidden(route, admin_key, id, active_only) ==
    /\ Called(route, admin_key, id, active_only, 403, NoBody, registry)
    /\ UNCHANGED nextId

\* POST /admin/keys/create
AdminCreate(admin_key, p, dbok) ==
    IF admin_key = None \/ ~ValidPayload(p) THEN Unprocessable("create", admin_key, 0, FALSE)
    ELSE IF AdminDenied(admin_key, ADMIN_KEY) THEN Forbidden("create", admin_key, 0, FALSE)
    ELSE IF ~dbok
        THEN /\ Called("create", admin_key, 0, FALSE, 500, NoBody, registry)
             /\ UNCHANGED nextId
    ELSE /\ nextId <= MaxKeys
         /\ LET after == [i \in (DOMAIN registry) \cup {nextId} |->
                            IF i = nextId THEN NewRecordFor(KeyOf(nextId), p) ELSE registry[i]]
            IN Called("create", admin_key, nextId, FALSE, 200,
                      [kind |-> "key", key |-> APIKeyResponse(after, nextId)], after)
         /\ nextId' = nextId + 1

\* GET /admin/keys
AdminList(admin_key, active_only) ==
    /\ UNCHANGED nextId
    /\ IF admin_key = None THEN Called("list", admin_key, 0, active_only, 422, NoBody, registry)
       ELSE IF AdminDenied(admin_key, ADMIN_KEY)
           THEN Called("list", admin_key, 0, active_only, 403, NoBody, registry)
       ELSE Called("list", admin_key, 0, active_only, 200,
                   [kind |-> "list",
                    keys |-> {APIKeyListResponse(registry, i) :
                                i \in get_all_api_keys(registry, active_only)}],
                   registry)

\* DELETE /admin/keys/{key_id}
AdminRevoke(admin_key, id, dbok) ==
    /\ UNCHANGED nextId
    /\ IF admin_key = None THEN Called("revoke", admin_key, id, FALSE, 422, NoBody, registry)
       ELSE IF AdminDenied(admin_key, ADMIN_KEY)
           THEN Called("revoke", admin_key, id, FALSE, 403, NoBody, registry)
       ELSE LET done == revoke_api_key(registry, id, dbok)
            IN CASE done.ok = "false" ->
                      Called("revoke", admin_key, id, FALSE, 404, NoBody, done.reg)
                 [] done.ok = "raised" ->
                      Called("revoke", admin_key, id, FALSE, 500, NoBody, done.reg)
                 [] done.ok = "true" ->
                      Called("revoke", admin_key, id, FALSE, 200,
                             [kind |-> "message", key_id |-> id], done.reg)

\* GET /admin/keys/{key_id}
AdminInspect(admin_key, id) ==
    /\ UNCHANGED nextId
    /\ IF admin_key = None THEN Called("inspect", admin_key, id, FALSE, 422, NoBody, registry)
       ELSE IF AdminDenied(admin_key, ADMIN_KEY)
           THEN Called("inspect", admin_key, id, FALSE, 403, NoBody, registry)
       ELSE IF id \notin DOMAIN registry
           THEN Called("inspect", admin_key, id, FALSE, 404, NoBody, registry)
       ELSE Called("inspect", admin_key, id, FALSE, 200,
                   [kind |-> "key", key |-> APIKeyListResponse(registry, id)], registry)

\* manage_keys.py create: create_api_key; exit status 1 on a database error.
CliCreate(dbok) ==
    IF ~dbok
        THEN /\ Called("cli_create", None, 0, FALSE, 1, NoBody, registry)
             /\ UNCHANGED nextId
    ELSE /\ nextId <= MaxKeys
         /\ Called("cli_create", None, nextId, FALSE, 0, NoBody,
                   [i \in (DOMAIN registry) \cup {nextId} |->
                      IF i = nextId THEN NewRecord(KeyOf(nextId)) ELSE registry[i]])
         /\ nextId' = nextId + 1

\* manage_keys.py revoke
CliRevoke(id, dbok) ==
    /\ UNCHANGED nextId
    /\ LET done == revoke_api_key(registry, id, dbok)
       IN Called("cli_revoke", None, id, FALSE, IF done.ok = "true" THEN 0 ELSE 1, NoBody,
                 done.reg)

\* manage_keys.py delete
CliDelete(id) ==
    /\ UNCHANGED nextId
    /\ IF id \in DOMAIN registry
         THEN Called("cli_delete", None, id, FALSE, 0, NoBody,
                     [i \in (DOMAIN registry) \ {id} |-> registry[i]])
         ELSE Called("cli_delete", None, id, FALSE, 1, NoBody, registry)

\* A request authenticated with the key of an active record has scheduled its
\* async_update_key_usage task, and the task runs.
KeyUsed(key, dbok) ==
    /\ get_api_key_record(registry, key) # 0
    /\ Called("touch", None, get_api_key_record(registry, key), FALSE, 0, NoBody,
              update_api_key_usage(registry, key, dbok))
    /\ UNCHANGED nextId

AdminInit ==
    /\ API_KEY_AUTH_ENABLED = TRUE
    /\ RATE_LIMIT_ENABLED = TRUE
    /\ redis_client = None
    /\ registry = << >>
    /\ nextId = 1
    /\ PipelineIdle
    /\ AssemblyIdle
    /\ UsageIdle
    /\ ADMIN_KEY \in {<< >>, Secret}
    /\ adm = NoCall

AdminNext ==
    \/ \E admin_key \in AdminKeys, p \in Payloads, dbok \in BOOLEAN :
         AdminCreate(admin_key, p, dbok)
    \/ \E admin_key \in AdminKeys, active_only \in BOOLEAN : AdminList(admin_key, active_only)
    \/ \E admin_key \in AdminKeys, id \in 1..MaxKeys, dbok \in BOOLEAN :
         AdminRevoke(admin_key, id, dbok)
    \/ \E admin_key \in AdminKeys, id \in 1..MaxKeys : AdminInspect(admin_key, id)
    \/ \E dbok \in BOOLEAN : CliCreate(dbok)
    \/ \E id \in 1..MaxKeys, dbok \in BOOLEAN : CliRevoke(id, dbok)
    \/ \E id \in 1..MaxKeys : CliDelete(id)
    \/ \E i \in 1..MaxKeys, dbok \in BOOLEAN : KeyUsed(KeyOf(i), dbok)

AdminSpec == AdminInit /\ [][AdminNext]_vars

\* ------------------------------------------------------------------ concurrent key usage

\* Number of database sessions that are open together.
MaxSessions == 3
SessionIds == 1..MaxSessions

\* The records of the registry the sessions work on, and the record revoked.
UsageIds == {1, 2}
RevokedIds == {1}

\* datetime.utcnow() read when the clock stands at n.
utcnow(n) == "utcnow" \o ToString(n)

\* Mutant of Flush: the UPDATE writes every column of the row as the session
\* loaded it, with the assigned column set.
Flush_WholeRow(reg, s) ==
    [reg EXCEPT ![s.row] = [s.loaded EXCEPT ![s.column] = s.value]]

\* db.commit() of a session with one attribute assigned: the unit of work
\* emits an UPDATE of that column alone, for the row with the primary key.
Flush(reg, s) ==
    [reg EXCEPT ![s.row][s.column] = s.value]

\* db = SessionLocal() in update_api_key_usage(key): the task a request
\* authenticated with the key of an active record has scheduled starts.
TouchOpen(t, key) ==
    /\ sessions[t] = NoSession
    /\ get_api_key_record(registry, key) # 0
    /\ sessions' = [sessions EXCEPT ![t] =
            [pc |-> "query", op |-> "touch", key |-> key, id |-> 0, row |-> 0,
             loaded |-> NewRecord(key), column |-> "last_used", value |-> "NULL"]]
    /\ UNCHANGED <<pipeline, admin, assembly, registry, nextId, now, commits>>

\* db = SessionLocal() in revoke_api_key(key_id)
RevokeOpen(t, id) ==
    /\ sessions[t] = NoSession
    /\ sessions' = [sessions EXCEPT ![t] =
            [pc |-> "query", op |-> "revoke", key |-> None, id |-> id, row |-> 0,
             loaded |-> NewRecord(None), column |-> "is_active", value |-> "NULL"]]
    /\ UNCHANGED <<pipeline, admin, assembly, registry, nextId, now, commits>>

\* api_key = db.query(APIKey).filter(...).first(): by key in
\* update_api_key_usage, by id in revoke_api_key, the active flag not looked at.
\* Without a row the function returns and the session is closed.
Query(t) ==
    /\ sessions[t].pc = "query"
    /\ LET s == sessions[t]
           hit == IF s.op = "touch" THEN {i \in DOMAIN registry : registry[i].key = s.key}
                  ELSE {i \in DOMAIN registry : i = s.id}
       IN sessions' = [sessions EXCEPT ![t] =
            IF hit = {} THEN [s EXCEPT !.pc = "closed"]
            ELSE [s EXCEPT !.pc = "assign", !.row = First(hit), !.loaded = registry[First(hit)]]]
    /\ UNCHANGED <<pipeline, admin, assembly, registry, nextId, now, commits>>

\* api_key.last_used = datetime.utcnow()
AssignLastUsed(t) ==
    /\ sessions[t].pc = "assign" /\ sessions[t].op = "touch"
    /\ sessions' = [sessions EXCEPT ![t] = [@ EXCEPT !.pc = "commit", !.value = utcnow(now)]]
    /\ now' = now + 1
    /\ UNCHANGED <<pipeline, admin, assembly, registry, nextId, commits>>

\* api_key.is_active = False
AssignInactive(t) ==
    /\ sessions[t].pc = "assign" /\ sessions[t].op = "revoke"
    /\ sessions' = [sessions EXCEPT ![t] = [@ EXCEPT !.pc = "commit", !.value = FALSE]]
    /\ UNCHANGED <<pipeline, admin, assembly, registry, nextId, now, commits>>

\* db.commit(), then db.close(); when the commit raises, db.rollback().
Commit(t, dbok) ==
    /\ sessions[t].pc = "commit"
    /\ LET s == sessions[t]
       IN IF dbok /\ s.row \in DOMAIN registry
            THEN /\ registry' = Flush(registry, s)
                 /\ commits' = Append(commits, [session |-> t, op |-> s.op, key |-> s.key,
                                                 id |-> s.row, value |-> s.value])
            ELSE UNCHANGED <<registry, commits>>
    /\ sessions' = [sessions EXCEPT ![t] = [@ EXCEPT !.pc = "closed"]]
    /\ UNCHANGED <<pipeline, admin, assembly, nextId, now>>

\* Two keys have been created; no session is open.
UsageInit ==
    /\ API_KEY_AUTH_ENABLED = TRUE
    /\ RATE_LIMIT_ENABLED = TRUE
    /\ redis_client = None
    /\ registry = [i \in UsageIds |-> NewRecord(KeyOf(i))]
    /\ nextId = 3
    /\ PipelineIdle
    /\ AdminIdle
    /\ AssemblyIdle
    /\ sessions = [t \in SessionIds |-> NoSession]
    /\ now = 1
    /\ commits = << >>

UsageNext ==
    \/ \E t \in SessionIds, i \in UsageIds : TouchOpen(t, KeyOf(i))
    \/ \E t \in SessionIds, id \in RevokedIds : RevokeOpen(t, id)
    \/ \E t \in SessionIds : Query(t)
    \/ \E t \in SessionIds : AssignLastUsed(t)
    \/ \E t \in SessionIds : AssignInactive(t)
    \/ \E t \in SessionIds, dbok \in BOOLEAN : Commit(t, dbok)

UsageSpec == UsageInit /\ [][UsageNext]_vars

\* ------------------------------------------------------------------ properties

\* The requests in flight or just answered.
Live == {s \in Slots : req[s].pc # "idle"}

\* The verify_api_key dependency of the request in slot s has run.
Verified(s) == req[s].pc # "auth" /\ HasAuthDependency(req[s].route)

C2_FetchOnlyAfterChecks ==
    \A s \in Live :
        Has(req[s].trail, "fetch")
            => /\ req[s].trail[1] = "auth_ok"
               /\ RATE_LIMIT_ENABLED => req[s].trail[2] = "limit_ok"

\* C3: a request whose key is looked up is accepted exactly when the registry
\* holds an active record of that key at the lookup, and rejected with 403
\* otherwise.
C3_AcceptedIffActiveRecord ==
    \A s \in Live :
        (Verified(s) /\ req[s].lookup # "nolookup")
            => /\ (req[s].trail[1] = "auth_ok") <=> (req[s].lookup = "active")
               /\ req[s].lookup # "active" => req[s].status = 403

\* C4: a request presenting the key of an active record is authenticated and
\* goes on to its handler, whatever happens to the last-used update.
C4_TouchFailureNotSurfaced ==
    \A s \in Live :
        (Verified(s) /\ req[s].lookup = "active")
            => /\ ~Has(req[s].trail, "auth_500")
               /\ ~(req[s].pc = "done" /\ Len(req[s].trail) = 1)

\* C5: a request for which the rate limiter reports the quota exceeded is
\* rejected with neither a cache read nor a network call.
C5_LimitedBeforeFetch ==
    \A s \in Live :
        Has(req[s].trail, "limit_429")
            => /\ req[s].pc = "done"
               /\ req[s].status = 429
               /\ req[s].body = NoBody
               /\ \A e \in {"fetch", "cache_get", "net", "cache_set"} : ~Has(req[s].trail, e)

\* The quota was exceeded for a request on a route that fetches upstream.
C5_Witness ==
    \E s \in Live :
        /\ Fetches(req[s].route) /\ Has(req[s].trail, "limit_429") /\ req[s].pc = "done"

\* C6: when the cache lookup of a fetch finds an entry under the URL, the fetch
\* returns the stored markup and makes no network call.
C6_PresentEntryServed ==
    \A s \in Live :
        req[s].seen.st = "present"
            => /\ ~Has(req[s].trail, "net")
               /\ req[s].pc # "net"
               /\ req[s].html = req[s].seen.value

\* C7: when no cache is connected, or the cache read or the cache write raises,
\* the fetch still makes its network call and the request is answered as the
\* outcome of that call alone decides.
C7_CacheFailureNeverFailsFetch ==
    \A s \in Live :
        LET r == req[s]
        IN (/\ r.pc = "done"
            /\ Has(r.trail, "fetch")
            /\ \/ redis_client = None
               \/ Has(r.trail, "cache_get_raised")
               \/ Has(r.trail, "cache_set_raised"))
            => /\ Has(r.trail, "net")
               /\ r.upstream.kind = "ok"
                    => /\ r.status \in {200, 404}
                       /\ r.html = r.upstream.body
                       /\ Reply(r.status, r.detail, r.body)
                            = HandlerAfterFetch(r.route, r.slug, r.title, r.upstream.body)
               /\ r.upstream.kind = "status"
                    => r.status = (IF r.route = "random" THEN 501 ELSE r.upstream.code)
               /\ r.upstream.kind = "timeout"
                    => r.status = (IF r.route = "random" THEN 501 ELSE 504)
               /\ r.upstream.kind = "transport"
                    => r.status = (IF r.route = "random" THEN 501 ELSE 500)

\* The cache write raised after a successful network call, and the article was
\* answered all the same.
C7_Witness ==
    \E s \in Live :
        /\ req[s].pc = "done" /\ req[s].route = "article"
        /\ Has(req[s].trail, "cache_set_raised")
        /\ req[s].status = 200 /\ req[s].body.kind = "article"

\* C8: an upstream 404 for the page of a slug is answered 404 with a detail
\* that contains the slug.
C8_NotFoundNamesSlug ==
    \A s \in Live :
        (HasSlug(req[s].route) /\ req[s].upstream.kind = "status" /\ req[s].upstream.code = 404)
            => /\ req[s].pc = "done"
               /\ req[s].status = 404
               /\ Contains(req[s].slug, req[s].detail)

\* The upstream answered 404 to a section request for the slug DoesNotExist123.
C8_Witness ==
    \E s \in Live :
        /\ req[s].route = "section" /\ req[s].pc = "done"
        /\ req[s].slug = <<"DoesNotExist123">>
        /\ req[s].upstream.kind = "status" /\ req[s].upstream.code = 404

\* C9 as stated: an upstream timeout ends the request with a 504 response, no
\* Article and no cache write.
C9_TimeoutIs504 ==
    \A s \in Live :
        req[s].upstream.kind = "timeout"
            => /\ req[s].pc = "done"
               /\ req[s].status = 504
               /\ req[s].body = NoBody
               /\ ~Has(req[s].trail, "cache_set")

\* C9 as amended: an upstream timeout ends the request with a 504 response, on
\* /random with a 501 response; no Article is built and the cache is not written.
C9_TimeoutIs504Or501OnRandom ==
    \A s \in Live :
        req[s].upstream.kind = "timeout"
            => /\ req[s].pc = "done"
               /\ req[s].status = (IF req[s].route = "random" THEN 501 ELSE 504)
               /\ req[s].body = NoBody
               /\ req[s].html = None
               /\ ~Has(req[s].trail, "cache_set")

\* The upstream timed out on an article request while the cache is connected.
C9_Witness ==
    \E s \in Live :
        /\ req[s].route = "article" /\ req[s].pc = "done"
        /\ req[s].upstream.kind = "timeout" /\ redis_client = Client

\* C10 as stated: an upstream status other than 2xx and 404 is passed through as
\* the response status, a transport failure is answered 500, and no failed
\* upstream call yields markup.
C10_FailurePassedThrough ==
    \A s \in Live :
        LET r == req[s]
        IN /\ (r.upstream.kind = "status" /\ r.upstream.code # 404) => r.status = r.upstream.code
           /\ r.upstream.kind = "transport" => r.status = 500
           /\ r.upstream.kind \in {"status", "timeout", "transport"}
                => r.pc = "done" /\ r.html = None /\ r.body = NoBody

\* C10 as amended: the same on every route but /random, which answers 501 to
\* every failure; no failed upstream call yields markup on any route.
C10_FailurePassedThroughOr501OnRandom ==
    \A s \in Live :
        LET r == req[s]
        IN /\ (r.upstream.kind = "status" /\ r.upstream.code # 404)
                => r.status = (IF r.route = "random" THEN 501 ELSE r.upstream.code)
           /\ r.upstream.kind = "transport"
                => r.status = (IF r.route = "random" THEN 501 ELSE 500)
           /\ r.upstream.kind \in {"status", "timeout", "transport"}
                => r.pc = "done" /\ r.html = None /\ r.body = NoBody

\* The upstream answered 503 to a summary request.
C10_Witness ==
    \E s \in Live :
        /\ req[s].route = "summary" /\ req[s].pc = "done"
        /\ req[s].upstream.kind = "status" /\ req[s].upstream.code = 503

\* How often the event e is on a trail.
Count(trail, e) == Cardinality({i \in DOMAIN trail : trail[i] = e})

\* C11: no request makes more than one upstream network call, a section
\* request included; when the call fails the request is over at once, answered
\* with the one failure response, the failed call being the last thing it did.
C11_NoRetry ==
    \A s \in Live :
        LET r == req[s]
        IN /\ Count(r.trail, "net") <= 1
           /\ Count(r.trail, "fetch") <= 1
           /\ r.upstream.kind \in {"status", "timeout", "transport"}
                => /\ r.pc = "done"
                   /\ r.status >= 400
                   /\ r.body = NoBody
                   /\ r.trail[Len(r.trail)] = "net"

\* A section request whose one upstream call timed out has been answered.
C11_Witness ==
    \E s \in Live :
        /\ req[s].route = "section" /\ req[s].pc = "done"
        /\ req[s].upstream.kind = "timeout"
        /\ Count(req[s].trail, "net") = 1

\* C12: extract_sections returns as many TOC entries as Sections, the i-th TOC
\* entry is the title of the i-th Section, both follow the document order of
\* the headings h2..h6, each level is that of the heading and lies in 2..6, and
\* no h1 yields a Section or a TOC entry.
C12_SectionsMatchHeadings ==
    step \in {"word_count", "return"} =>
        LET below == SelectSeq(Positions(dom), LAMBDA j : dom[j].name \in HeadingNames \ {"h1"})
            sections == fields.sections
            toc == fields.table_of_contents
        IN /\ Len(toc) = Len(sections)
           /\ Len(sections) = Len(below)
           /\ \A i \in DOMAIN sections :
                /\ toc[i] = sections[i].title
                /\ sections[i].title = get_text(dom, below[i])
                /\ sections[i].level = LevelOf(dom[below[i]].name)
                /\ sections[i].level \in 2..6

\* The sections of a tree with an h1, an h2 and an h3 nested in a div have been
\* extracted.
C12_Witness ==
    /\ step = "word_count"
    /\ \E j \in DOMAIN dom : dom[j].name = "h1"
    /\ \E j \in DOMAIN dom : dom[j].name = "h3" /\ dom[j].parent # 0
    /\ Len(fields.sections) = 2
    /\ fields.sections[1].level # fields.sections[2].level

\* C13: the ReferenceList holds no URL twice, holds exactly the collected links,
\* and orders them by their first occurrence among the collected links.
C13_ReferencesUniqueInOrder ==
    step = "fact_checked" =>
        LET refs == fields.references
            links == CollectedLinks(dom)
            first(u) == First({k \in DOMAIN links : links[k] = u})
        IN /\ \A i, j \in DOMAIN refs : i # j => refs[i] # refs[j]
           /\ {refs[i] : i \in DOMAIN refs} = {links[k] : k \in DOMAIN links}
           /\ \A i, j \in DOMAIN refs : i < j => first(refs[i]) < first(refs[j])

\* The links A, B, A, C of a list after a References heading have been
\* extracted as A, B, C.
C13_Witness ==
    /\ step = "fact_checked"
    /\ RefSection(dom) # 0
    /\ CollectedLinks(dom) = <<ExtA, ExtB, ExtA, ExtC>>
    /\ fields.references = <<ExtA, ExtB, ExtC>>

\* C14: no URL of the ReferenceList is on the domain of the source site.
C14_NoOwnSiteLinks ==
    step = "fact_checked" =>
        \A i \in DOMAIN fields.references :
            ~Contains(<<"grokipedia.com">>, fields.references[i])

\* C15: when a description meta tag (og:description or description) has
\* non-empty content the summary is that content, trimmed; only otherwise is it
\* the first qualifying block of the sibling scan, and only when that finds none
\* the first qualifying paragraph of the document.
C15_SummaryPriorityChain ==
    step = "references" =>
        LET tags == SelectSeq(Positions(dom), LAMBDA j :
                        /\ dom[j].name = "meta"
                        /\ dom[j].key \in {"og:description", "description"}
                        /\ dom[j].content # None
                        /\ dom[j].content # << >>)
        IN IF tags # << >>
             THEN \E k \in DOMAIN tags : fields.summary = StrStrip(dom[tags[k]].content)
           ELSE IF SiblingScan(dom, {"Jump to", "From "}) # << >>
             THEN fields.summary = SiblingScan(dom, {"Jump to", "From "})
           ELSE fields.summary = GlobalScan(dom)

Notes ==
    UNION {{runs[r].log[i] : i \in DOMAIN runs[r].log} : r \in DOMAIN runs}
    \cup {fields.log[i] : i \in DOMAIN fields.log}

\* C17: references and fact-check are extracted before the decompose loop, on
\* the tree as parsed; full text, sections and word count are computed after
\* it, on a tree without non-content tags.
C17_ExtractBeforeStripping ==
    \A n \in Notes :
        /\ n.stmt \in {"references", "fact_checked"} => ~n.decomposed /\ n.as_parsed
        /\ n.stmt \in {"full_content", "sections", "word_count"} => n.decomposed /\ n.clean

\* A page whose footer holds a link and the fact-check line has been assembled:
\* both were extracted, and the footer is not in the full text.
C17_Witness ==
    /\ Len(runs) >= 1
    /\ runs[1].tree # input.tree
    /\ runs[1].article.references = <<ExtB>>
    /\ runs[1].article.metadata.fact_checked = <<"grok">>
    /\ ~Contains(<<"grok">>, runs[1].article.full_content)

\* The reply to a section request for the text asked, when the text matched
\* for is want: the first Section whose lowered title contains it, 404 when
\* there is none.
FirstMatchReplied(want) ==
    fields.asked # None =>
        LET sections == runs[Len(runs)].article.sections
            hit == {i \in DOMAIN sections : Contains(want, Lower(sections[i].title))}
        IN IF hit = {} THEN fields.reply.status = 404 /\ fields.reply.body = NoBody
           ELSE /\ fields.reply.status = 200
                /\ fields.reply.body.section = sections[First(hit)]

\* C18 as stated: the text matched for is the given text, lowered.
C18_FirstMatchingSection == FirstMatchReplied(Lower(fields.asked))

\* C18 as amended: the text matched for is the given text, lowered, with every
\* underscore replaced by a space.
C18_FirstMatchUnderscoreAsSpace == FirstMatchReplied(ReplaceUnderscore(Lower(fields.asked)))

\* The text a_b was asked for in an article with several sections, and the
\* first of the two sections that match it was returned.
C18_Witness ==
    /\ fields.asked = <<"a", "_", "b">>
    /\ fields.reply.status = 200
    /\ LET sections == runs[Len(runs)].article.sections
       IN \E i, j \in DOMAIN sections :
            /\ i < j
            /\ Contains(<<"a", " ", "b">>, Lower(sections[i].title))
            /\ Contains(<<"a", " ", "b">>, Lower(sections[j].title))
            /\ fields.reply.body.section = sections[i]
            /\ sections[i] # sections[j]

\* C19: a revoke, by the admin route or the CLI, that succeeds leaves every
\* record in the registry and changes nothing but the active flag of the
\* revoked record, which becomes false; an inspection answers for every record
\* of the registry, a listing holds every record when active_only is false and
\* the active ones when it is true; no call but the CLI delete removes a record.
C19_RevokeSoftDeletes ==
    LET before == adm.before
        after == adm.after
    IN adm # NoCall =>
        /\ (adm.route \in {"revoke", "cli_revoke"} /\ adm.status \in {200, 0}) =>
              /\ adm.id \in DOMAIN before
              /\ DOMAIN after = DOMAIN before
              /\ \A i \in DOMAIN before :
                    after[i] = IF i = adm.id THEN [before[i] EXCEPT !.is_active = FALSE]
                               ELSE before[i]
        /\ (adm.route = "inspect" /\ adm.status \notin {403, 422}) =>
              /\ adm.status = 200 <=> adm.id \in DOMAIN before
              /\ adm.status = 200 =>
                    /\ adm.body.key.id = adm.id
                    /\ adm.body.key.is_active = before[adm.id].is_active
                    /\ adm.body.key.last_used = before[adm.id].last_used
        /\ (adm.route = "list" /\ adm.status = 200) =>
              {k.id : k \in adm.body.keys}
                  = {i \in DOMAIN before : adm.active_only => before[i].is_active}
        /\ adm.route # "cli_delete" => DOMAIN before \subseteq DOMAIN after
        /\ (adm.route = "cli_delete" /\ adm.status = 0) =>
              DOMAIN after = (DOMAIN before) \ {adm.id}

\* The admin route has revoked a key that was active and had been used.
C19_Witness ==
    /\ adm # NoCall
    /\ adm.route = "revoke" /\ adm.status = 200
    /\ adm.before[adm.id].is_active
    /\ adm.before[adm.id].last_used = "utcnow"
    /\ adm.id \in DOMAIN registry

AdminRoutes == {"create", "list", "revoke", "inspect"}

\* The admin route call did not present the configured secret, or no secret is
\* configured.
NotAuthorized ==
    adm # NoCall /\ adm.route \in AdminRoutes
    /\ (adm.admin_key # ADMIN_KEY \/ ADMIN_KEY = << >>)

\* C20 as stated: an admin route call that does not present the configured
\* secret, and every call while no secret is configured, is answered 403,
\* carries no key record and leaves the registry as it was.
C20_AdminGate403 ==
    NotAuthorized => adm.status = 403 /\ adm.body = NoBody /\ adm.after = adm.before

\* C20 as amended: such a call is answered 403, or 422 when it fails request
\* validation (admin_key missing, malformed create body); it carries no key
\* record and leaves the registry as it was.
C20_AdminGate403Or422 ==
    NotAuthorized =>
        /\ adm.status = (IF adm.valid THEN 403 ELSE 422)
        /\ adm.admin_key = None => ~adm.valid
        /\ adm.body = NoBody
        /\ adm.after = adm.before

\* With no secret configured, a revoke of an existing active key with an empty
\* admin_key was answered 403.
C20_Witness ==
    /\ adm # NoCall
    /\ ADMIN_KEY = << >> /\ adm.admin_key = << >>
    /\ adm.route = "revoke" /\ adm.status = 403
    /\ adm.id \in DOMAIN registry /\ registry[adm.id].is_active

\* C21: in the default configuration (key authentication and rate limiting
\* enabled), a GET /health sent without an X-API-Key header, within its quota, is
\* answered 200 with status "healthy" and the configured base URL, and makes no
\* upstream fetch.
C21_HealthOpenByDefault ==
    \A s \in Live :
        (/\ API_KEY_AUTH_ENABLED /\ RATE_LIMIT_ENABLED
         /\ req[s].route = "health" /\ req[s].key = None /\ req[s].lookup = "nolookup"
         /\ req[s].pc = "done" /\ ~Has(req[s].trail, "limit_429"))
            => /\ req[s].status = 200
               /\ req[s].body = [kind |-> "health", status |-> "healthy", base_url |-> BASE_URL]
               /\ ~Has(req[s].trail, "fetch")

\* The requests of the concurrent run that have come in.
Racing == {s \in DOMAIN req : req[s].pc # "idle"}

\* The markup texts the upstream has returned so far for url.
Returned(url) ==
    {req[s].upstream.body :
        s \in {t \in Racing : req[t].upstream.kind = "ok"
                              /\ UrlOf(req[t].route, req[t].slug) = url}}

\* C22: under every interleaving of concurrent fetches, the cache entry of a
\* URL is absent or is a markup text the upstream returned for that URL, the
\* markup a fetch hands to its handler is one the upstream returned for that URL
\* (by its own call or by a call whose result it read from the cache), and a 200
\* response is the one the handler builds from that markup.
C22_RaceOnlyDuplicatesFetch ==
    /\ \A k \in DOMAIN cache :
         /\ k \in CacheKeys
         /\ cache[k].value \in Returned(SubSeq(k, 2, Len(k)))
         /\ cache[k].ttl = CACHE_TTL
    /\ \A s \in Racing :
         LET r == req[s]
         IN /\ r.html # None => r.html \in Returned(UrlOf(r.route, r.slug))
            /\ (r.pc = "done" /\ r.status = 200) =>
                  /\ r.html # None
                  /\ Reply(r.status, r.detail, r.body)
                       = HandlerAfterFetch(r.route, r.slug, r.title, r.html)
            /\ r.upstream.kind = "ok" => r.html = r.upstream.body

\* Two requests for the page of the same slug both missed the cache, both
\* fetched, the upstream returned different markup to them, both wrote the
\* cache, and the entry is the markup of one of them.
C22_Witness ==
    \E s, t \in Racing :
        /\ s # t
        /\ UrlOf(req[s].route, req[s].slug) = UrlOf(req[t].route, req[t].slug)
        /\ req[s].pc = "done" /\ req[t].pc = "done"
        /\ req[s].seen.st = "absent" /\ req[t].seen.st = "absent"
        /\ Has(req[s].trail, "cache_set") /\ Has(req[t].trail, "cache_set")
        /\ ~Has(req[s].trail, "cache_set_raised") /\ ~Has(req[t].trail, "cache_set_raised")
        /\ req[s].html # req[t].html
        /\ CacheKey(UrlOf(req[s].route, req[s].slug)) \in DOMAIN cache
        /\ cache[CacheKey(UrlOf(req[s].route, req[s].slug))].value = req[t].html

\* The commits of the kind op on the record id, oldest first.
CommitsOn(op, id) == SelectSeq(commits, LAMBDA c : c.op = op /\ c.id = id)

\* C23: under every interleaving of last-used updates with one another and
\* with revokes, the registry keeps its records; a record differs from the one
\* created only in the active flag, which is false exactly when a revoke of the
\* record has committed, and in last_used, which is the value of the update of
\* that record's key that committed last (NULL when none has committed).
C23_TouchWritesOnlyLastUsed ==
    /\ DOMAIN registry = UsageIds
    /\ \A c \in {commits[k] : k \in DOMAIN commits} :
         c.op = "touch" => registry[c.id].key = c.key
    /\ \A i \in UsageIds :
         LET touches == CommitsOn("touch", i)
         IN registry[i] =
              [NewRecord(KeyOf(i)) EXCEPT
                 !.is_active = CommitsOn("revoke", i) = << >>,
                 !.last_used = IF touches = << >> THEN "NULL"
                               ELSE touches[Len(touches)].value]

\* Two updates for the key of record 1 and a revoke of it have committed, the
\* revoke between the two; the update that committed last had loaded the record
\* while it was active and had read the clock before the other one. The record
\* is inactive and carries the earlier clock value.
C23_Witness ==
    /\ Len(commits) = 3
    /\ commits[1].op = "touch" /\ commits[2].op = "revoke" /\ commits[3].op = "touch"
    /\ \A k \in 1..3 : commits[k].id = 1
    /\ sessions[commits[3].session].loaded.is_active
    /\ commits[3].value = utcnow(1) /\ commits[1].value = utcnow(2)
    /\ ~registry[1].is_active
    /\ registry[1].last_used = utcnow(1)

\* C24: the document-wide fallback is used only when no References section is
\* located; when one is located the ReferenceList holds the links collected
\* after it up to the next h1 or h2 and nothing else, and is empty when that
\* range holds no absolute link.
C24_FallbackOnlyWithoutSection ==
    step = "fact_checked" =>
        IF RefSection(dom) = 0
            THEN fields.references = Unique(FallbackLinks(dom))
        ELSE fields.references
                = Unique(SectionLinks(dom, find_next_siblings(dom, RefSection(dom))))

\* The texts of the siblings sibs up to the first heading h1..h6, empty texts
\* left out.
RECURSIVE PartsToHeading(_, _)
PartsToHeading(soup, sibs) ==
    IF sibs = << >> \/ soup[Head(sibs)].name \in HeadingNames THEN << >>
    ELSE (IF get_text(soup, Head(sibs)) # << >> THEN <<get_text(soup, Head(sibs))>> ELSE << >>)
         \o PartsToHeading(soup, Tail(sibs))

\* C25: the content of the Section of a heading below top level is the joined
\* non-empty text of its following siblings up to the next sibling that is a
\* heading h1..h6; a sibling that is no heading does not end it.
C25_ContentUpToNextHeading ==
    step \in {"word_count", "return"} =>
        LET below == SelectSeq(Positions(dom), LAMBDA j : dom[j].name \in HeadingNames \ {"h1"})
        IN /\ Len(fields.sections) = Len(below)
           /\ \A k \in DOMAIN below :
                fields.sections[k].content
                    = JoinSpace(PartsToHeading(dom, find_next_siblings(dom, below[k])))

C27_SummaryRouteAgrees ==
    Len(runs) >= 1 =>
        /\ SummaryResponse(input.tree, input.slug).title = runs[1].article.title
        /\ SummaryResponse(input.tree, input.slug).summary = runs[1].article.summary

Failures == {"status", "timeout", "transport"}

\* C28: a request whose upstream call fails is over with an error response and
\* has written nothing to the cache: the step in which the call fails leaves the
\* cache as it is, and the request never reaches the cache write. No entry of the
\* cache is anything but markup of a successful call, and a request that finds
\* no entry under its URL makes a network call of its own.
C28_FailedFetchNotCached ==
    /\ [](\A s \in Racing :
            LET r == req[s]
            IN /\ r.upstream.kind \in Failures
                    => /\ r.pc = "done" /\ r.status >= 400 /\ r.html = None
                       /\ ~Has(r.trail, "cache_set")
               /\ r.seen.st = "absent" => (r.pc = "net" \/ Has(r.trail, "net")))
    /\ [](\A k \in DOMAIN cache :
            \E o \in Outcomes(SubSeq(k, 2, Len(k))) : o.kind = "ok" /\ o.body = cache[k].value)
    /\ [][\A s \in DOMAIN req :
            (req[s].pc = "net" /\ req'[s].pc = "done") =>
                /\ req'[s].upstream.kind \in Failures
                /\ cache' = cache]_vars

\* While Redis is connected, a request for the page of a slug has failed on an
\* upstream timeout; another request for the same URL has found no entry, has
\* fetched the page itself and has stored it.
C28_Witness ==
    \E s, t \in Racing :
        /\ req[s].route = "article" /\ req[t].route = "article"
        /\ req[s].pc = "done" /\ req[s].upstream.kind = "timeout" /\ req[s].status = 504
        /\ req[t].pc = "done" /\ req[t].seen.st = "absent" /\ req[t].upstream.kind = "ok"
        /\ req[t].html = PageA
        /\ CacheKey(UrlOf("article", req[t].slug)) \in DOMAIN cache
        /\ cache[CacheKey(UrlOf("article", req[t].slug))].value = PageA

\* The admin route call presented the configured secret and passed validation.
Authorized == adm # NoCall /\ adm.route \in AdminRoutes /\ adm.status \notin {403, 422}

====
